---- MODULE Spec2Model ----
(***************************************************************************)
(* Model of ssh.py: a bounded-concurrency remote command runner.           *)
(* A Python str is a sequence of one-character strings, so that strip(),   *)
(* lower(), startswith(), the `in` operator and path joining are computed  *)
(* the way Python computes them.                                           *)
(***************************************************************************)
EXTENDS Integers, Sequences, FiniteSets, TLC

VARIABLES
    pc,           \* position of main_async
    exit_code,    \* process exit code, NoExit while the process runs
    args,         \* the argparse namespace
    hostfile,     \* content of the file named by --hostfile (or Missing)
    hosts,        \* result of read_hosts
    transport,    \* which errors the transport layer raises in this run
    prior,        \* content every path had before the run (NoFile or Stale)
    semaphore,    \* value of the asyncio.Semaphore of run_parallel
    task,         \* per target: position of its run_with_limit coroutine
    results,      \* per target: what gather collected for it
    completed,    \* target indices in the order their tasks finished
    fs,           \* files written by this run: path -> content
    summary,      \* the printed execution summary
    run,          \* 1 in the first run of the command line, 2 in a repetition
    first         \* what the first run left, once it is repeated

vars == <<pc, exit_code, args, hostfile, hosts, transport, prior, semaphore,
          task, results, completed, fs, summary, run, first>>

\* the variables that relate a repeated run to the first one
repetition == <<run, first>>

-----------------------------------------------------------------------------
(* Bounds *)

MaxHosts == 3
MaxParallelism == 2
MaxExitStatus == 1
MaxLines == 3

-----------------------------------------------------------------------------
(* Python str operations *)

UpperCase == <<"A","B","C","D","E","F","G","H","I","J","K","L","M","N","O","P","Q","R","S","T","U","V","W","X","Y","Z">>
LowerCase == <<"a","b","c","d","e","f","g","h","i","j","k","l","m","n","o","p","q","r","s","t","u","v","w","x","y","z">>
Whitespace == {" ", "\t", "\n"}

Min(S) == CHOOSE x \in S : \A y \in S : x <= y
Max(S) == CHOOSE x \in S : \A y \in S : x >= y

\* str.lower()
lower(s) ==
    [i \in 1..Len(s) |->
        IF \E k \in 1..Len(UpperCase) : UpperCase[k] = s[i]
        THEN LowerCase[CHOOSE k \in 1..Len(UpperCase) : UpperCase[k] = s[i]]
        ELSE s[i]]

\* sub in s
Contains(sub, s) ==
    \E i \in 1..(Len(s) - Len(sub) + 1) : SubSeq(s, i, i + Len(sub) - 1) = sub

\* s.startswith(prefix)
startswith(s, prefix) ==
    Len(s) >= Len(prefix) /\ SubSeq(s, 1, Len(prefix)) = prefix

\* str.strip()
strip(s) ==
    LET keep == {i \in 1..Len(s) : s[i] \notin Whitespace}
    IN  IF keep = {} THEN <<>> ELSE SubSeq(s, Min(keep), Max(keep))

\* the elements of s at the positions in I, in order
RECURSIVE SubseqAt(_, _)
SubseqAt(s, I) ==
    IF s = <<>> THEN <<>>
    ELSE SubseqAt(SubSeq(s, 1, Len(s) - 1), I)
            \o (IF Len(s) \in I THEN <<s[Len(s)]>> ELSE <<>>)

\* list(dict.fromkeys(s))
fromkeys(s) ==
    SubseqAt(s, {i \in 1..Len(s) : \A j \in 1..(i - 1) : s[j] # s[i]})

\* os.path.join(a, b) for a relative b
path_join(a, b) == a \o <<"/">> \o b

\* os.path.abspath(p) for a relative p
Cwd == <<"/","c","w","d">>
abspath(p) == path_join(Cwd, p)

-----------------------------------------------------------------------------
(* Values *)

None == <<"None">>          \* Python None, where a str is expected
Missing == << <<"Missing">> >>  \* no file at the --hostfile path
NoFile == <<"NoFile">>      \* no file at a path
Stale == <<"o","l","d">>            \* content left by an earlier run
NoExit == 0 - 1             \* no exit code or exit status yet

NoResult == [kind |-> "none"]
NoSummary == [printed |-> FALSE]
NoFirst == [task |-> <<>>, results |-> <<>>, fs |-> <<>>]

\* datetime.now().strftime("%Y%m%d_%H%M%S")
timestamp == <<"2","0","2","4","0","1","0","1","_","0","0","0","0","0","0">>

\* result.stdout and result.stderr of a completed command
CapturedStdout == <<"O">>
CapturedStderr == <<"E">>

ExitStatuses == 0..MaxExitStatus

\* hostfile lines, as `for line in f` yields them
HostLines == << <<"a","\n">>, <<"b","\n">>, <<"c","\n">>, <<"d","\n">> >>
\* a file of a comment and a blank line, and a file naming one host twice
CommentsOnly == << <<"#"," ","h","o","s","t","s","\n">>, <<"\n">> >>
Duplicated == << <<"a","\n">>, <<"a","\n">> >>
HostFiles ==
    {SubSeq(HostLines, 1, n) : n \in 0..MaxHosts}
        \cup {CommentsOnly, Duplicated, Missing}

\* lines of any hostfile: names, padded names, comments with and without
\* leading whitespace, blank lines
AnyLines ==
    {<<"a","\n">>, <<"b","\n">>, <<" ","a"," ","\n">>, <<"#"," ","c","\n">>, <<" "," ","#"," ","c","\n">>, <<"\n">>, <<" "," ","\n">>}

RECURSIVE SeqsUpTo(_, _)
SeqsUpTo(S, n) ==
    IF n = 0 THEN {<<>>}
    ELSE LET shorter == SeqsUpTo(S, n - 1)
         IN  shorter \cup {Append(s, x) : s \in shorter, x \in S}

AnyHostFiles == SeqsUpTo(AnyLines, MaxLines)

\* error texts of the transport layer
ErrRefused == <<"C","o","n","n","e","c","t","i","o","n"," ","r","e","f","u","s","e","d">>
ErrRefusedLower == <<"s","s","h",":"," ","c","o","n","n","e","c","t","i","o","n"," ","r","e","f","u","s","e","d">>
ErrTimedOut == <<"C","o","n","n","e","c","t","i","o","n"," ","T","i","m","e","d"," ","O","u","t">>
ErrNoRoute == <<"N","o"," ","r","o","u","t","e"," ","t","o"," ","h","o","s","t">>
ErrNetUnreachable == <<"N","e","t","w","o","r","k"," ","u","n","r","e","a","c","h","a","b","l","e">>
ErrResolve == <<"C","o","u","l","d"," ","n","o","t"," ","r","e","s","o","l","v","e"," ","h","o","s","t","n","a","m","e">>
ErrConnFailed == <<"C","o","n","n","e","c","t","i","o","n"," ","f","a","i","l","e","d">>
ErrDenied == <<"P","e","r","m","i","s","s","i","o","n"," ","d","e","n","i","e","d">>
ErrLost == <<"C","o","n","n","e","c","t","i","o","n"," ","l","o","s","t">>

AllErrorTexts ==
    {ErrRefused, ErrRefusedLower, ErrTimedOut, ErrNoRoute, ErrNetUnreachable,
     ErrResolve, ErrConnFailed, ErrDenied, ErrLost}

\* what the transport layer of a run raises besides timeouts and unexpected
\* exceptions: any of the error texts, or none
ErrorTexts(t) == IF t = "error texts" THEN AllErrorTexts ELSE {}

\* exceptions of connect() and conn.run(); ValueError stands for any exception
\* outside (asyncssh.Error, asyncio.TimeoutError, OSError)
Exceptions(texts) ==
    [type : {"asyncssh.Error", "OSError"}, text : texts]
        \cup {[type |-> "asyncio.TimeoutError", text |-> <<>>]}
        \cup {[type |-> "ValueError", text |-> <<>>]}
NoError == [type |-> "none", text |-> <<>>]

-----------------------------------------------------------------------------
(* read_hosts *)

\* the list comprehension of read_hosts
kept_lines(lines) ==
    LET keep == {i \in 1..Len(lines) :
                    strip(lines[i]) # <<>> /\ ~startswith(lines[i], <<"#">>)}
        sel == SubseqAt(lines, keep)
    IN  [i \in 1..Len(sel) |-> strip(sel[i])]

read_hosts(lines) == fromkeys(kept_lines(lines))

\* the number printed by "Removed N duplicate hosts."
removed_duplicates(lines) == Len(kept_lines(lines)) - Len(read_hosts(lines))

-----------------------------------------------------------------------------
(* execute_on_host *)

\* except (asyncssh.Error, asyncio.TimeoutError, OSError)
caught(e) == e.type \in {"asyncssh.Error", "asyncio.TimeoutError", "OSError"}

\* the `unreachable` expression
is_unreachable(e) ==
    LET error_message == e.text
    IN  \/ Contains(<<"C","o","n","n","e","c","t","i","o","n"," ","r","e","f","u","s","e","d">>, error_message)
        \/ Contains(<<"t","i","m","e","d"," ","o","u","t">>, lower(error_message))
        \/ Contains(<<"n","o"," ","r","o","u","t","e"," ","t","o"," ","h","o","s","t">>, lower(error_message))
        \/ Contains(<<"n","e","t","w","o","r","k"," ","u","n","r","e","a","c","h","a","b","l","e">>, lower(error_message))
        \/ Contains(<<"c","o","u","l","d"," ","n","o","t"," ","r","e","s","o","l","v","e">>, lower(error_message))
        \/ Contains(<<"c","o","n","n","e","c","t","i","o","n"," ","f","a","i","l","e","d">>, lower(error_message))
        \/ e.type = "asyncio.TimeoutError"

base_name(host, a) ==
    IF a.timestamp THEN host \o <<"_">> \o timestamp ELSE host

stdout_file(host, a) ==
    IF a.add_suffixes
    THEN path_join(a.stdout_dir, base_name(host, a) \o <<".","o","u","t">>)
    ELSE path_join(a.stdout_dir, base_name(host, a))

stderr_file(host, a) ==
    IF a.add_suffixes
    THEN path_join(a.stderr_dir, base_name(host, a) \o <<".","e","r","r">>)
    ELSE path_join(a.stderr_dir, base_name(host, a))

\* variant of error_stderr_file that leaves the suffix out
error_stderr_file_without_suffix(host, a) ==
    path_join(a.stderr_dir, base_name(host, a))

\* the stderr path of the except branch
error_stderr_file(host, a) ==
    IF a.add_suffixes
    THEN path_join(a.stderr_dir, base_name(host, a) \o <<".","e","r","r">>)
    ELSE path_join(a.stderr_dir, base_name(host, a))

\* variant of write_file that opens the file for appending
write_file_appending(files, path, data) ==
    LET old == IF path \in DOMAIN files THEN files[path]
               ELSE IF prior = NoFile THEN <<>> ELSE prior
    IN  (path :> (old \o data)) @@ files

\* open(path, 'w') followed by f.write(data)
write_file(files, path, data) == (path :> data) @@ files

\* what is at a path now
read_file(files, path) == IF path \in DOMAIN files THEN files[path] ELSE prior

\* f"Connection error: {str(e)}"
connection_error_text(e) == <<"C","o","n","n","e","c","t","i","o","n"," ","e","r","r","o","r",":"," ">> \o e.text

Returned(host, success, unreachable) ==
    [kind |-> "return", host |-> host, success |-> success,
     unreachable |-> unreachable]
Raised == [kind |-> "exception"]

-----------------------------------------------------------------------------
(* Initial states: the command line and the environment of one run *)

OutdirValues == {None, <<"b","a","s","e">>}
StdoutDirValues == {None, <<"o">>}
StderrDirValues == {None, <<"e">>}
ParallelismValues == (-1)..MaxParallelism

InitWith(files, pars, outdirs, stdout_dirs, stderr_dirs, flags, transports, priors) ==
    /\ pc = "parse_arguments"
    /\ exit_code = NoExit
    /\ hostfile \in files
    /\ \E p \in pars, od \in outdirs, sd \in stdout_dirs, ed \in stderr_dirs,
          ts \in flags, sfx \in flags :
            args = [outdir |-> od, stdout_dir |-> sd, stderr_dir |-> ed,
                    parallelism |-> p, timestamp |-> ts, add_suffixes |-> sfx]
    /\ transport \in transports
    /\ prior \in priors
    /\ hosts = <<>>
    /\ semaphore = 0
    /\ task = <<>>
    /\ results = <<>>
    /\ completed = <<>>
    /\ fs = <<>>
    /\ summary = NoSummary
    /\ run = 1
    /\ first = NoFirst

\* every command line and environment, for a hostfile of at most one target
InitAnyConfiguration ==
    InitWith({f \in HostFiles : f = Missing \/ Len(read_hosts(f)) <= 1},
             ParallelismValues,
             OutdirValues, StdoutDirValues, StderrDirValues, BOOLEAN,
             {"error texts"}, {NoFile, Stale})

\* every hostfile and parallelism, for `--outdir base` with the naming flags
\* off and a transport that fails by timeout or by an unexpected exception only
InitAnyTargets ==
    InitWith(HostFiles, ParallelismValues, {<<"b","a","s","e">>}, {None}, {None}, {FALSE},
             {"timeouts"}, {NoFile})

Init == InitAnyConfiguration \/ InitAnyTargets

-----------------------------------------------------------------------------
(* parse_arguments: the output directories; os.makedirs creates them before
   the hostfile is read *)

derive_dirs(a) ==
    IF a.outdir # None
    THEN [a EXCEPT !.stdout_dir = IF a.stdout_dir # None THEN a.stdout_dir
                                  ELSE path_join(a.outdir, <<"o","u","t">>),
                   !.stderr_dir = IF a.stderr_dir # None THEN a.stderr_dir
                                  ELSE path_join(a.outdir, <<"e","r","r">>)]
    ELSE a

Exit(code) ==
    /\ pc' = "done"
    /\ exit_code' = code

ParseArguments ==
    /\ pc = "parse_arguments"
    /\ LET a == derive_dirs(args)
       IN  IF a.stdout_dir = None \/ a.stderr_dir = None
           THEN \* parser.error exits with status 2
                /\ Exit(2)
                /\ UNCHANGED args
           ELSE /\ args' = a
                /\ pc' = "read_hosts"
                /\ UNCHANGED exit_code
    /\ UNCHANGED <<hostfile, hosts, transport, prior, semaphore, task, results,
                   completed, fs, summary, repetition>>

\* main_async: hosts = read_hosts(args.hostfile); if not hosts: sys.exit(1)
LoadHosts ==
    /\ pc = "read_hosts"
    /\ IF hostfile = Missing
       THEN Exit(1) /\ UNCHANGED hosts
       ELSE IF read_hosts(hostfile) = <<>>
            THEN Exit(1) /\ UNCHANGED hosts
            ELSE /\ hosts' = read_hosts(hostfile)
                 /\ pc' = "run_parallel"
                 /\ UNCHANGED exit_code
    /\ UNCHANGED <<args, hostfile, transport, prior, semaphore, task, results,
                   completed, fs, summary, repetition>>

-----------------------------------------------------------------------------
(* run_parallel *)

\* pc: position of run_with_limit; established: connect returned a connection;
\* exit_status: result.exit_status; error: the exception that ended the session;
\* connects: calls of asyncssh.connect that have ended
NewTask ==
    [pc |-> "waiting", established |-> FALSE, exit_status |-> NoExit,
     error |-> NoError, connects |-> 0]

\* the connect calls of task i once its session has ended
connects_ended(i) ==
    IF task[i].pc = "connecting" THEN task[i].connects + 1 ELSE task[i].connects

\* asyncio.Semaphore(value) raises ValueError for value < 0; the tasks are
\* created and gather starts waiting for them
RunParallel ==
    /\ pc = "run_parallel"
    /\ IF args.parallelism < 0
       THEN /\ Exit(1)
            /\ UNCHANGED <<semaphore, task, results>>
       ELSE /\ semaphore' = args.parallelism
            /\ task' = [i \in 1..Len(hosts) |-> NewTask]
            /\ results' = [i \in 1..Len(hosts) |-> NoResult]
            /\ pc' = "gather"
            /\ UNCHANGED exit_code
    /\ UNCHANGED <<args, hostfile, hosts, transport, prior, completed, fs, summary, repetition>>

\* variant of Acquire that enters without waiting for a permit
Acquire_unbounded(i) ==
    /\ pc = "gather"
    /\ task[i].pc = "waiting"
    /\ semaphore' = semaphore - 1
    /\ task' = [task EXCEPT ![i].pc = "connecting"]
    /\ UNCHANGED <<pc, exit_code, args, hostfile, hosts, transport, prior,
                   results, completed, fs, summary, repetition>>

\* async with semaphore: entry, by any waiting task
Acquire(i) ==
    /\ pc = "gather"
    /\ task[i].pc = "waiting"
    /\ semaphore > 0
    /\ semaphore' = semaphore - 1
    /\ task' = [task EXCEPT ![i].pc = "connecting"]
    /\ UNCHANGED <<pc, exit_code, args, hostfile, hosts, transport, prior,
                   results, completed, fs, summary, repetition>>

\* variant of Finish in which a task that raises cancels the unfinished tasks
Finish_cancelling(i, result, files, status, error) ==
    LET hit == IF result.kind = "exception"
               THEN {j \in 1..Len(task) : j = i \/ task[j].pc # "finished"}
               ELSE {i}
    IN  /\ results' = [j \in 1..Len(results) |->
                          IF j = i THEN result
                          ELSE IF j \in hit THEN [kind |-> "exception"]
                          ELSE results[j]]
        /\ fs' = files
        /\ task' = [j \in 1..Len(task) |->
                       IF j = i
                       THEN [task[j] EXCEPT !.pc = "finished",
                                            !.exit_status = status,
                                            !.error = error,
                                            !.connects = connects_ended(i)]
                       ELSE IF j \in hit THEN [task[j] EXCEPT !.pc = "finished"]
                       ELSE task[j]]
        /\ semaphore' = semaphore + 1
        /\ completed' = Append(completed, i)
                            \o SubseqAt([j \in 1..Len(task) |-> j], hit \ {i})
        /\ UNCHANGED <<pc, exit_code, args, hostfile, hosts, transport, prior,
                       summary, repetition>>

\* variant of Finish that leaves the semaphore as it is
Finish_without_release(i, result, files, status, error) ==
    /\ results' = [results EXCEPT ![i] = result]
    /\ fs' = files
    /\ task' = [task EXCEPT ![i].pc = "finished", ![i].exit_status = status,
                            ![i].error = error,
                            ![i].connects = connects_ended(i)]
    /\ completed' = Append(completed, i)
    /\ UNCHANGED <<pc, exit_code, args, hostfile, hosts, transport, prior,
                   semaphore, summary, repetition>>

\* execute_on_host ends (return or raise), `async with semaphore` releases,
\* and gather records the task's result or exception
Finish(i, result, files, status, error) ==
    /\ results' = [results EXCEPT ![i] = result]
    /\ fs' = files
    /\ task' = [task EXCEPT ![i].pc = "finished", ![i].exit_status = status,
                            ![i].error = error,
                            ![i].connects = connects_ended(i)]
    /\ semaphore' = semaphore + 1
    /\ completed' = Append(completed, i)
    /\ UNCHANGED <<pc, exit_code, args, hostfile, hosts, transport, prior, summary, repetition>>

\* variant of except_branch that also opens the stdout path for writing
except_branch_truncating_stdout(i, e) ==
    IF caught(e)
    THEN Finish(i, Returned(hosts[i], FALSE, is_unreachable(e)),
                write_file(write_file(fs, stdout_file(hosts[i], args), <<>>),
                           error_stderr_file(hosts[i], args),
                           connection_error_text(e)),
                NoExit, e)
    ELSE Finish(i, Raised, fs, NoExit, e)

\* variant of except_branch that connects once more after a first connect
\* raised a connection-level error
except_branch_retrying(i, e) ==
    IF caught(e) /\ task[i].pc = "connecting" /\ task[i].connects = 0
    THEN /\ task' = [task EXCEPT ![i].connects = @ + 1]
         /\ UNCHANGED <<pc, exit_code, args, hostfile, hosts, transport, prior,
                        semaphore, results, completed, fs, summary, repetition>>
    ELSE IF caught(e)
    THEN Finish(i, Returned(hosts[i], FALSE, is_unreachable(e)),
                write_file(fs, error_stderr_file(hosts[i], args),
                           connection_error_text(e)),
                NoExit, e)
    ELSE Finish(i, Raised, fs, NoExit, e)

\* execute_on_host: the except clause; an exception it does not name leaves
\* execute_on_host
except_branch(i, e) ==
    IF caught(e)
    THEN Finish(i, Returned(hosts[i], FALSE, is_unreachable(e)),
                write_file(fs, error_stderr_file(hosts[i], args),
                           connection_error_text(e)),
                NoExit, e)
    ELSE Finish(i, Raised, fs, NoExit, e)

\* variant of command_completed that returns before the stderr file is written
command_completed_skipping_stderr(i, status) ==
    Finish(i, Returned(hosts[i], status = 0, FALSE),
           write_file(fs, stdout_file(hosts[i], args), CapturedStdout),
           status, NoError)

\* variant of command_completed that reports success whatever the exit status
command_completed_ignoring_status(i, status) ==
    Finish(i, Returned(hosts[i], TRUE, FALSE),
           write_file(write_file(fs, stdout_file(hosts[i], args), CapturedStdout),
                      stderr_file(hosts[i], args), CapturedStderr),
           status, NoError)

\* execute_on_host: after conn.run returned
command_completed(i, status) ==
    Finish(i, Returned(hosts[i], status = 0, FALSE),
           write_file(write_file(fs, stdout_file(hosts[i], args), CapturedStdout),
                      stderr_file(hosts[i], args), CapturedStderr),
           status, NoError)

\* execute_on_host: asyncssh.connect
Connect(i) ==
    /\ pc = "gather"
    /\ task[i].pc = "connecting"
    /\ \/ /\ task' = [task EXCEPT ![i].pc = "running", ![i].established = TRUE,
                                  ![i].connects = @ + 1]
          /\ UNCHANGED <<pc, exit_code, args, hostfile, hosts, transport, prior,
                         semaphore, results, completed, fs, summary, repetition>>
       \/ \E e \in Exceptions(ErrorTexts(transport)) : except_branch(i, e)

\* execute_on_host: conn.run and what follows it
Run(i) ==
    /\ pc = "gather"
    /\ task[i].pc = "running"
    /\ \/ \E status \in ExitStatuses : command_completed(i, status)
       \/ \E e \in Exceptions(ErrorTexts(transport)) : except_branch(i, e)

-----------------------------------------------------------------------------
(* main_async after gather returned *)

\* variant of valid_result that marks a raised exception as unreachable
valid_result_exception_unreachable(result) ==
    IF result.kind = "exception"
    THEN [host |-> None, success |-> FALSE, unreachable |-> TRUE]
    ELSE [host |-> result.host, success |-> result.success,
          unreachable |-> result.unreachable]

\* the "Process results" loop
valid_result(result) ==
    IF result.kind = "exception"
    THEN [host |-> None, success |-> FALSE, unreachable |-> FALSE]
    ELSE [host |-> result.host, success |-> result.success,
          unreachable |-> result.unreachable]

valid_results == [i \in 1..Len(results) |-> valid_result(results[i])]

truthy(s) == s # None /\ s # <<>>

\* variant of unreachable_hosts that lists the hosts as their tasks finished
unreachable_hosts_as_completed ==
    LET sel == SubseqAt(completed,
                        {k \in 1..Len(completed) :
                            truthy(valid_results[completed[k]].host)
                            /\ valid_results[completed[k]].unreachable})
    IN  [k \in 1..Len(sel) |-> valid_results[sel[k]].host]

\* [host for host, _, is_unreachable in valid_results if host and is_unreachable]
unreachable_hosts ==
    LET sel == SubseqAt(valid_results,
                        {i \in 1..Len(valid_results) :
                            truthy(valid_results[i].host)
                            /\ valid_results[i].unreachable})
    IN  [i \in 1..Len(sel) |-> sel[i].host]

\* the lines written to unreachable.hosts
RECURSIVE host_lines(_)
host_lines(hs) ==
    IF hs = <<>> THEN <<>> ELSE Head(hs) \o <<"\n">> \o host_lines(Tail(hs))

successful == Cardinality({i \in 1..Len(valid_results) : valid_results[i].success})
failed ==
    Cardinality({i \in 1..Len(valid_results) :
                    ~valid_results[i].success /\ ~valid_results[i].unreachable})
unreachable == Len(unreachable_hosts)

unreachable_file == path_join(args.outdir, <<"u","n","r","e","a","c","h","a","b","l","e",".","h","o","s","t","s">>)
reported_unreachable_file ==
    abspath(path_join(args.stdout_dir, <<"u","n","r","e","a","c","h","a","b","l","e",".","h","o","s","t","s">>))

AllFinished == \A i \in 1..Len(task) : task[i].pc = "finished"

\* variant of Aggregate that does not wait for gather: it counts the results
\* collected so far as soon as one task has finished
Aggregate_early ==
    LET sel == SubseqAt(results, {i \in 1..Len(results) : results[i] # NoResult})
        vr == [i \in 1..Len(sel) |-> valid_result(sel[i])]
        un == SubseqAt(vr, {i \in 1..Len(vr) :
                               truthy(vr[i].host) /\ vr[i].unreachable})
        uh == [i \in 1..Len(un) |-> un[i].host]
    IN  /\ pc = "gather"
        /\ sel # <<>>
        /\ fs' = IF uh # <<>> /\ args.outdir # None
                 THEN write_file(fs, unreachable_file, host_lines(uh))
                 ELSE fs
        /\ summary' = [printed |-> TRUE,
                       total |-> Len(hosts),
                       successful |-> Cardinality({i \in 1..Len(vr) : vr[i].success}),
                       failed |-> Cardinality({i \in 1..Len(vr) :
                                     ~vr[i].success /\ ~vr[i].unreachable}),
                       unreachable |-> Len(uh),
                       unreachable_hosts |-> uh,
                       saved_to |-> IF Len(uh) > 0
                                    THEN reported_unreachable_file ELSE None]
        /\ Exit(0)
        /\ UNCHANGED <<args, hostfile, hosts, transport, prior, semaphore, task,
                       results, completed, repetition>>

Aggregate ==
    /\ pc = "gather"
    /\ AllFinished
    /\ IF unreachable_hosts # <<>> /\ args.outdir = None
       THEN \* os.path.join(None, ...) raises TypeError
            /\ Exit(1)
            /\ UNCHANGED <<fs, summary>>
       ELSE /\ fs' = IF unreachable_hosts # <<>>
                     THEN write_file(fs, unreachable_file, host_lines(unreachable_hosts))
                     ELSE fs
            /\ summary' = [printed |-> TRUE,
                           total |-> Len(hosts),
                           successful |-> successful,
                           failed |-> failed,
                           unreachable |-> unreachable,
                           unreachable_hosts |-> unreachable_hosts,
                           saved_to |-> IF unreachable > 0
                                        THEN reported_unreachable_file ELSE None]
            /\ Exit(0)
    /\ UNCHANGED <<args, hostfile, hosts, transport, prior, semaphore, task,
                   results, completed, repetition>>

-----------------------------------------------------------------------------

Next ==
    \/ ParseArguments
    \/ LoadHosts
    \/ RunParallel
    \/ \E i \in 1..Len(task) : Acquire(i)
    \/ \E i \in 1..Len(task) : Connect(i)
    \/ \E i \in 1..Len(task) : Run(i)
    \/ Aggregate

Spec == Init /\ [][Next]_vars

\* the event loop runs every coroutine that can take a step, and every
\* connect and every command ends
Fairness ==
    /\ WF_vars(ParseArguments)
    /\ WF_vars(LoadHosts)
    /\ WF_vars(RunParallel)
    /\ WF_vars(Aggregate)
    /\ \A i \in 1..MaxHosts :
          /\ WF_vars(i \in DOMAIN task /\ Acquire(i))
          /\ WF_vars(i \in DOMAIN task /\ Connect(i))
          /\ WF_vars(i \in DOMAIN task /\ Run(i))

\* hostfiles of no more targets than the largest parallelism, so that targets
\* wait for a permit when the parallelism is smaller
InitFair ==
    InitWith({f \in HostFiles : f = Missing \/ Len(read_hosts(f)) <= MaxParallelism},
             ParallelismValues, {<<"b","a","s","e">>}, {None}, {None}, {FALSE},
             {"timeouts"}, {NoFile})

FairSpec == InitFair /\ [][Next]_vars /\ Fairness

-----------------------------------------------------------------------------
(* The same command line run a second time over the files the first run
   left, with the same hostfile, timestamp and naming flags *)

Rerun ==
    /\ pc = "done"
    /\ run = 1
    /\ task # <<>>
    /\ run' = 2
    /\ first' = [task |-> task, results |-> results, fs |-> fs]
    /\ pc' = "parse_arguments"
    /\ exit_code' = NoExit
    /\ hosts' = <<>>
    /\ semaphore' = 0
    /\ task' = <<>>
    /\ results' = <<>>
    /\ completed' = <<>>
    /\ summary' = NoSummary
    /\ UNCHANGED <<args, hostfile, transport, prior, fs>>

\* `--outdir base` with every naming flag, a parallelism that lets the targets
\* run, and a transport that fails by timeout or by an unexpected exception
InitRerun ==
    InitWith({f \in HostFiles : f # Missing /\ Len(read_hosts(f)) \in 1..2},
             1..MaxParallelism,
             {<<"b","a","s","e">>}, {None}, {None}, BOOLEAN,
             {"timeouts"}, {NoFile, Stale})

NextRerun == Next \/ Rerun

SpecRerun == InitRerun /\ [][NextRerun]_vars

-----------------------------------------------------------------------------
(* read_hosts over any hostfile of at most MaxLines lines *)

InitReadHosts ==
    InitWith(AnyHostFiles, {1}, {<<"b","a","s","e">>}, {None}, {None}, {FALSE},
             {"timeouts"}, {NoFile})

NextReadHosts == ParseArguments \/ LoadHosts

SpecReadHosts == InitReadHosts /\ [][NextReadHosts]_vars

-----------------------------------------------------------------------------
(* Vocabulary of the properties *)

Targets == 1..Len(task)

\* targets inside execute_on_host
InSession == {i \in Targets : task[i].pc \in {"connecting", "running"}}

\* the classification main_async gives a target: a raised exception is counted
\* with the failed hosts
Outcome(i) ==
    IF results[i].kind = "return"
    THEN IF results[i].success THEN "Success"
         ELSE IF results[i].unreachable THEN "Unreachable" ELSE "Failed"
    ELSE IF results[i].kind = "exception" THEN "Failed" ELSE "Pending"

Classified(status) == {i \in Targets : Outcome(i) = status}

\* position of target i in the completion order
CompletionRank(i) == CHOOSE k \in 1..Len(completed) : completed[k] = i

UnreachableInHostfileOrder == SubseqAt(hosts, Classified("Unreachable"))

UnreachableInCompletionOrder ==
    LET sel == SubseqAt(completed,
                        {k \in 1..Len(completed) :
                            completed[k] \in Classified("Unreachable")})
    IN  [k \in 1..Len(sel) |-> hosts[sel[k]]]

endswith(s, suffix) ==
    Len(s) >= Len(suffix) /\ SubSeq(s, Len(s) - Len(suffix) + 1, Len(s)) = suffix

\* the unreachable.hosts files this run wrote, wherever they are
UnreachableArtifacts == {p \in DOMAIN fs : endswith(p, <<"/","u","n","r","e","a","c","h","a","b","l","e",".","h","o","s","t","s">>)}

\* the pattern table of the classification, every pattern in lower case
UnreachablePatterns ==
    {<<"c","o","n","n","e","c","t","i","o","n"," ","r","e","f","u","s","e","d">>, <<"t","i","m","e","d"," ","o","u","t">>, <<"n","o"," ","r","o","u","t","e"," ","t","o"," ","h","o","s","t">>,
     <<"n","e","t","w","o","r","k"," ","u","n","r","e","a","c","h","a","b","l","e">>, <<"c","o","u","l","d"," ","n","o","t"," ","r","e","s","o","l","v","e">>, <<"c","o","n","n","e","c","t","i","o","n"," ","f","a","i","l","e","d">>}

\* a session of target i that ended in the except clause
EndedByConnectionError(i) ==
    task[i].pc = "finished" /\ task[i].error # NoError /\ caught(task[i].error)

\* a session of target i that ended with an exception leaving execute_on_host
EndedByFault(i) ==
    task[i].pc = "finished" /\ task[i].error # NoError /\ ~caught(task[i].error)

-----------------------------------------------------------------------------
(* C1: with parallelism N >= 1, at most N targets are inside execute_on_host
   in every reachable state. *)
C1_ConcurrencyBound ==
    args.parallelism >= 1 => Cardinality(InSession) <= args.parallelism

\* all permits are taken, a target waits, and a session has ended by a fault
C1_Witness ==
    /\ args.parallelism >= 1
    /\ Cardinality(InSession) = args.parallelism
    /\ \E i \in Targets : task[i].pc = "waiting"
    /\ \E i \in Targets : EndedByFault(i)

(* C2: the printed counts add up to the number of targets, and each count is
   the number of targets of that classification, every target having exactly
   one; a session that ended by a fault is counted too. *)
C2_Completeness ==
    summary.printed =>
        /\ summary.successful + summary.failed + summary.unreachable = Len(hosts)
        /\ summary.total = Len(hosts)
        /\ summary.successful = Cardinality(Classified("Success"))
        /\ summary.failed = Cardinality(Classified("Failed"))
        /\ summary.unreachable = Cardinality(Classified("Unreachable"))
        /\ Classified("Pending") = {}

\* a summary of a run with a success, an unreachable host and a fault
C2_Witness ==
    /\ summary.printed
    /\ summary.successful >= 1
    /\ summary.unreachable >= 1
    /\ \E i \in Targets : EndedByFault(i)

(* C3: a step that gives one target its result is a step of that target's own
   session and leaves every other target's task and result as they were, so a
   fault never cancels or alters a sibling; and main_async goes on after
   gather only with a result for every target. *)
C3_FaultIsolation ==
    /\ [][\A i \in DOMAIN results \cap DOMAIN results' :
            results'[i] # results[i] =>
                /\ task[i].pc \in {"connecting", "running"}
                /\ \A j \in DOMAIN results \ {i} :
                      results'[j] = results[j] /\ task'[j] = task[j]]_vars
    /\ [][pc = "gather" /\ pc' = "done" =>
            \A i \in Targets : results[i] # NoResult]_vars

\* a target completed its command after another target's session had faulted
C3_Witness ==
    /\ pc = "done"
    /\ \E i, j \in Targets :
          /\ EndedByFault(i)
          /\ results[j].kind = "return"
          /\ results[j].success
          /\ CompletionRank(i) < CompletionRank(j)

(* C4: a session that ended by a connection-level error is Unreachable when
   the lower-cased error text contains one of the patterns or the error is a
   timeout, and Failed otherwise. *)
C4_CaseInsensitiveClassification ==
    \A i \in Targets :
        EndedByConnectionError(i) =>
            Outcome(i) =
                IF \/ \E p \in UnreachablePatterns :
                        Contains(p, lower(task[i].error.text))
                   \/ task[i].error.type = "asyncio.TimeoutError"
                THEN "Unreachable" ELSE "Failed"

(* C5: a target whose session was established and whose command completed
   with an exit status is Success when the status is 0 and Failed otherwise,
   never Unreachable. *)
C5_ExitStatusClassification ==
    \A i \in Targets :
        task[i].pc = "finished" /\ task[i].established
            /\ task[i].exit_status # NoExit =>
                Outcome(i) = IF task[i].exit_status = 0 THEN "Success" ELSE "Failed"

\* one command completed with status 0 and another with a status that is not 0
C5_Witness ==
    \E i, j \in Targets :
        /\ task[i].pc = "finished" /\ task[i].exit_status = 0
        /\ task[j].pc = "finished" /\ task[j].exit_status > 0

(* C6: at the end of a run that loaded a target, unreachable.hosts has been
   written exactly when a target is Unreachable, and then lists the
   Unreachable targets one per line. *)
C6_UnreachableArtifact ==
    pc = "done" /\ hosts # <<>> =>
        /\ UnreachableArtifacts # {} <=> Classified("Unreachable") # {}
        /\ \A p \in UnreachableArtifacts :
              fs[p] = host_lines(UnreachableInHostfileOrder)

C8_ExitCode ==
    pc = "done" /\ args.parallelism >= 1 =>
        /\ hosts # <<>> => exit_code = 0
        /\ (hostfile = Missing \/ read_hosts(hostfile) = <<>>) => exit_code # 0

(* C9: after the run, the stderr path of every target that is Failed or
   Unreachable has been written by this run, also when its session ended by
   a fault. *)
C9_FailureRecorded ==
    pc = "done" =>
        \A i \in Classified("Failed") \cup Classified("Unreachable") :
            stderr_file(hosts[i], args) \in DOMAIN fs

(* C10: when connecting raised a connection-level error, so that the command
   never ran, the stderr path holds the message synthesized from the error
   and the stdout path has not been written and holds what it held before
   the run. *)
C10_ConnectionFailureArtifacts ==
    \A i \in Targets :
        EndedByConnectionError(i) /\ ~task[i].established =>
            /\ stderr_file(hosts[i], args) \in DOMAIN fs
            /\ fs[stderr_file(hosts[i], args)]
                   = <<"C","o","n","n","e","c","t","i","o","n"," ","e","r","r","o","r",":"," ">> \o task[i].error.text
            /\ stdout_file(hosts[i], args) \notin DOMAIN fs
            /\ read_file(fs, stdout_file(hosts[i], args)) = prior

\* connecting failed with an error text, over a stdout file of an earlier run
C10_Witness ==
    \E i \in Targets :
        /\ EndedByConnectionError(i)
        /\ ~task[i].established
        /\ task[i].error.text = ErrDenied
        /\ prior = Stale

\* the file names of the naming table
NamedFile(host, with_timestamp, with_suffix, suffix) ==
    CASE ~with_timestamp /\ ~with_suffix -> host
      [] ~with_timestamp /\ with_suffix -> host \o suffix
      [] with_timestamp /\ ~with_suffix -> host \o <<"_">> \o timestamp
      [] with_timestamp /\ with_suffix -> host \o <<"_">> \o timestamp \o suffix

NamedStdout(i) ==
    args.stdout_dir \o <<"/">>
        \o NamedFile(hosts[i], args.timestamp, args.add_suffixes, <<".","o","u","t">>)

NamedStderr(i) ==
    args.stderr_dir \o <<"/">>
        \o NamedFile(hosts[i], args.timestamp, args.add_suffixes, <<".","e","r","r">>)

(* C11: the output paths depend on the host, the run timestamp and the two
   naming flags only: the stdout file is named <host>, <host>.out,
   <host>_<timestamp> or <host>_<timestamp>.out, the stderr file the same
   with .err, and a session that ended in the except clause wrote the stderr
   path a completed command writes. *)
C11_OutputPaths ==
    /\ \A i \in Targets :
          /\ task[i].pc = "finished" /\ task[i].exit_status # NoExit =>
                NamedStdout(i) \in DOMAIN fs /\ NamedStderr(i) \in DOMAIN fs
          /\ EndedByConnectionError(i) => NamedStderr(i) \in DOMAIN fs
          /\ stdout_file(hosts[i], args) = NamedStdout(i)
          /\ stderr_file(hosts[i], args) = NamedStderr(i)
          /\ error_stderr_file(hosts[i], args) = stderr_file(hosts[i], args)
    /\ DOMAIN fs \subseteq
          {NamedStdout(i) : i \in Targets} \cup {NamedStderr(i) : i \in Targets}
              \cup UnreachableArtifacts

\* a connection error recorded under a name with the timestamp and the suffix
C11_Witness ==
    \E i \in Targets :
        /\ EndedByConnectionError(i)
        /\ args.timestamp /\ args.add_suffixes
        /\ NamedStderr(i) \in DOMAIN fs

(* C12: when unreachable.hosts is written, the path the summary reports as
   the place the unreachable hosts were saved is the path of the file
   written. *)
C12_ReportedArtifactPath ==
    summary.printed =>
        \A p \in UnreachableArtifacts : summary.saved_to = abspath(p)

(* C13: the scheduler is started only with a parallelism of at least 1, so no
   target ever waits for a permit of a semaphore that has none to give. *)
C13_ParallelismValidated ==
    pc = "gather" => args.parallelism >= 1

(* C14: output writes overwrite and never append: when a second run of the
   same command line ends with every session ended as in the first run, every
   file holds exactly what the first run left in it. *)
C14_Idempotence ==
    pc = "done" /\ run = 2 /\ task = first.task /\ results = first.results =>
        fs = first.fs

\* a command completed in both runs, over files older than the first run
C14_Witness ==
    /\ pc = "done" /\ run = 2 /\ task = first.task /\ results = first.results
    /\ prior = Stale
    /\ \E i \in Targets : task[i].exit_status = 0

\* the trimmed lines that are neither blank nor, once trimmed, comments
TrimmedTargetLines(lines) ==
    LET trimmed == [i \in 1..Len(lines) |-> strip(lines[i])]
    IN  SubseqAt(trimmed, {i \in 1..Len(lines) :
                              trimmed[i] # <<>> /\ trimmed[i][1] # "#"})

\* s without the elements that appeared before
FirstAppearances(s) ==
    SubseqAt(s, {i \in 1..Len(s) : ~\E j \in 1..(i - 1) : s[j] = s[i]})

(* C15: once the hostfile is read, the targets are its trimmed lines that are
   neither blank nor comments, each once and in the order of first
   appearance; the number of removed duplicates is the number of lines kept
   before deduplication minus the number of targets; and no target is empty
   or begins with '#', also for a comment line with leading whitespace. *)
C15_ReadHosts ==
    pc \notin {"parse_arguments", "read_hosts"} /\ hostfile # Missing =>
        /\ read_hosts(hostfile) = FirstAppearances(TrimmedTargetLines(hostfile))
        /\ hosts \in {<<>>, read_hosts(hostfile)}
        /\ removed_duplicates(hostfile)
               = Len(kept_lines(hostfile)) - Len(read_hosts(hostfile))
        /\ \A k \in 1..Len(hosts) : hosts[k] # <<>> /\ hosts[k][1] # "#"

(* C16: with a parallelism of at least 1 and every connect and command
   ending, every target's task finishes and main_async leaves gather with all
   of them finished; every way a session ends gives its permit back, so the
   permits held are exactly those of the sessions in flight. *)
C16_Progress ==
    /\ [](pc = "gather" /\ args.parallelism >= 1 =>
              semaphore + Cardinality(InSession) = args.parallelism)
    /\ (pc = "gather" /\ args.parallelism >= 1)
          ~> (pc = "done" /\ \A i \in Targets : task[i].pc = "finished")

\* a run of more targets than permits ended, a session having faulted
C16_Witness ==
    /\ pc = "done" /\ AllFinished
    /\ args.parallelism >= 1
    /\ Len(hosts) > args.parallelism
    /\ semaphore = args.parallelism
    /\ \E i \in Targets : EndedByFault(i)

(* C17: a target is Unreachable only if its session was never established; a
   target whose connect succeeded and whose command then failed, by a timeout
   for instance, is Failed. *)
C17_UnreachableNeverEstablished ==
    \A i \in Targets :
        /\ Outcome(i) = "Unreachable" => ~task[i].established
        /\ task[i].pc = "finished" /\ task[i].established
              /\ task[i].exit_status = NoExit => Outcome(i) = "Failed"

(* C18: every step that prints the counts and the unreachable list, writes
   unreachable.hosts or ends main_async after gather is taken in a state in
   which no session is in flight and gather holds a result for every target. *)
C18_AggregationAfterJoin ==
    [][(summary' # summary
            \/ UnreachableArtifacts' # UnreachableArtifacts
            \/ (pc = "gather" /\ pc' # "gather"))
        => (InSession = {}
            /\ \A i \in Targets :
                  task[i].pc = "finished" /\ results[i] # NoResult)]_vars

\* the summary of a run of several targets was printed and the file written
C18_Witness ==
    /\ summary.printed
    /\ UnreachableArtifacts # {}
    /\ Len(hosts) >= 2
    /\ \E i \in Targets : CompletionRank(i) > 1 /\ Outcome(i) = "Success"

(* C19: a target's connection is attempted at most once, and exactly once by
   the time its session runs a command or has ended; a target has a result
   exactly when its task has finished; and once a target has its result, no
   step changes the result or the task again. *)
C19_AttemptedOnce ==
    /\ [](\A i \in Targets :
              /\ task[i].connects <= 1
              /\ task[i].pc \in {"running", "finished"} => task[i].connects = 1
              /\ results[i] # NoResult <=> task[i].pc = "finished"
              /\ Cardinality({k \in 1..Len(completed) : completed[k] = i}) <= 1)
    /\ [][\A i \in Targets :
              results[i] # NoResult =>
                  results'[i] = results[i] /\ task'[i] = task[i]]_vars

\* the run ended after a connect had raised a connection-level error
C19_Witness ==
    /\ pc = "done"
    /\ \E i \in Targets :
          /\ EndedByConnectionError(i)
          /\ ~task[i].established
          /\ task[i].connects = 1

\* target i's stdout and stderr paths were written in this run and hold the
\* captured streams
StreamsPersisted(i) ==
    /\ stdout_file(hosts[i], args) \in DOMAIN fs
    /\ fs[stdout_file(hosts[i], args)] = CapturedStdout
    /\ stderr_file(hosts[i], args) \in DOMAIN fs
    /\ fs[stderr_file(hosts[i], args)] = CapturedStderr

(* C20: in every reachable state, a target whose outcome is Success, and a
   target whose outcome is Failed with an exit status, has had both its
   stdout path and its stderr path written in this run with the captured
   streams. *)
C20_ArtifactsBeforeOutcome ==
    \A i \in Targets :
        /\ Outcome(i) = "Success" => StreamsPersisted(i)
        /\ Outcome(i) = "Failed" /\ task[i].exit_status # NoExit =>
              StreamsPersisted(i)

\* a target is Failed with an exit status, over files of an earlier run
C20_Witness ==
    /\ prior = Stale
    /\ \E i \in Targets :
          Outcome(i) = "Failed" /\ task[i].exit_status > 0 /\ StreamsPersisted(i)

====
